---- MODULE Spec2Model ----
(***************************************************************************)
(* Model of src/app/contract/Vault.sol: the Vault contract, a registry of  *)
(* time-boxed deposit pools with a pseudo-random winner-takes-interest     *)
(* settlement.  Every external function of the contract, the two of       *)
(* Ownable it inherits included, is one action: a transaction, which      *)
(* leaves every variable as it was when it reverts.  The result of a call  *)
(* (its revert reason, what it pays, the storage it leaves) is an          *)
(* operator of the contract's state and the call's inputs, which the       *)
(* action applies.  Where a function hands control to a token contract or  *)
(* to a recipient, what that party calls back into the contract is an      *)
(* input of the action, and runs on the storage written up to that point.  *)
(***************************************************************************)
EXTENDS Integers, Sequences, FiniteSets

(* ------------------------------ bounds --------------------------------- *)
\* number of one-year steps the block timestamp advances
MaxTicks == 2
\* number of vaults created
MaxVaults == 1
\* cap on the totalDeposits of the vaults, added up (bounds the deposit
\* amounts that pile up)
MaxTotal == 3
\* the random seed ranges over 0..MaxSeed
MaxSeed == 2
\* cap on what the administrator adds with fundContract / fundContractToken
MaxFunded == 1
\* the same two caps where one vault more is created
MaxTotalOfMore == 1
MaxFundedOfMore == 0
\* the cap on the deposits where every call of every transaction is recorded
MaxTotalOfRoles == 2
\* the interest computations under test have principal * rate up to this
MaxPrincipalTimesRate == 500500
\* and an interest of at most this
MaxInterest == 60
\* how deep the calls made back into the contract nest: a call made from
\* inside an external call of the transaction's outermost call is at depth 1
MaxDepth == 1
\* how many calls a party makes back into the contract while one external
\* call has handed it control
MaxCallsBack == 1

(* ------------------------- program constants --------------------------- *)
\* `365 days` in the interest formula
SecondsPerYear == 31536000
\* the `10000` (basis points) in the interest formula
BpsDenominator == 10000

(* --------------------------- input domains ----------------------------- *)
\* externally owned accounts; 1 deploys the contract
Addr == {1, 2, 3}
Deployer == 1
\* the accounts that send the transactions of Next, and call back into the
\* contract from inside its external calls
Callers == {1, 2}
\* address(0): the native currency as a vault asset, and the unset address
ZeroAddress == 0
\* the one ERC20 token contract of the model
TokenT == 9
Assets == {ZeroAddress, TokenT}
\* the addresses setAdminWallet is called with
NewAdmins == {ZeroAddress, Deployer, 2}
\* the <<_amount, msg.value>> pairs deposit is called with
DepositCalls == {<<0, 0>>, <<1, 0>>, <<2, 0>>, <<0, 1>>, <<0, 2>>, <<1, 1>>}
\* the amounts the administrator funds the contract with
FundAmounts == {0, 1}
Durations == {SecondsPerYear}
Rates == {0, 5000}
Seeds == 0..MaxSeed
StartTime == 1700000000
TimeStep == SecondsPerYear
\* the inputs of the interest computations under test: the principals of
\* two depositors (0: the second one is absent), a rate in basis points and
\* a duration in seconds (1, 364, 365 and 366 days)
InterestPrincipals == {1, 999, 1000, 1001, 9999, 10000}
OtherPrincipals == {0, 1000}
InterestRates == {1, 499, 500}
InterestDurations ==
    {SecondsPerYear \div 365, SecondsPerYear - SecondsPerYear \div 365,
     SecondsPerYear, SecondsPerYear + SecondsPerYear \div 365}
InterestInputs ==
    {c \in [p : InterestPrincipals, q : OtherPrincipals, r : InterestRates,
            d : InterestDurations] :
        c.p * c.r <= MaxPrincipalTimesRate}
\* the addresses transferOwnership is called with
NewOwners == {ZeroAddress, 2}
\* what an external asset transfer can do: move the funds, report failure by
\* returning false, or revert
Outcomes == {"ok", "false", "revert"}
VARIABLES
    vaults,             \* mapping(uint256 => VaultInfo) vaults
    claimableAmounts,   \* mapping(uint256 => mapping(address => uint256))
    vaultCount,         \* uint256 vaultCount
    adminWallet,        \* address adminWallet
    owner,              \* Ownable's owner
    balance,            \* the contract's holdings of each asset
    funded,             \* per asset, what the administrator has funded
    now,                \* block.timestamp
    tracking,           \* whether the withdraw history is recorded
    callbacks,          \* whether tokens and recipients call back into the
                        \* contract from inside its external calls
    caps,               \* the bounds of the specification: on vaultCount,
                        \* on the deposits and on the administrator's funds
    withdrew,           \* history: the <<vault id, address>> pairs that have
                        \* withdrawn from the vault with success and not
                        \* deposited into it with success since
    interestCalc,       \* the interest computation under test: its inputs
                        \* and the values computed so far (<<>> when unused)
    emittedInterest     \* history: per vault, the totalInterest carried by
                        \* its WinnerSelected event (<<>> before the event)

vars == <<vaults, claimableAmounts, vaultCount, adminWallet, owner, balance,
          funded, now, tracking, callbacks, caps, withdrew, interestCalc,
          emittedInterest>>

(* ------------------------------ helpers -------------------------------- *)
\* the vault ids of the specification: the ids createVault assigns within
\* the bound on vaultCount
VaultIds == 0..(caps.vaults - 1)

\* the calls made back into the contract by the party an external call
\* hands control to: function f, called by c, on vault v where it takes
\* one, with the arguments x and y
NestedCalls ==
    {[f |-> "deleteVault", c |-> c, v |-> v, x |-> 0, y |-> 0] :
             c \in Callers, v \in VaultIds}
    \cup {[f |-> "deposit", c |-> c, v |-> v, x |-> call[1], y |-> call[2]] :
             c \in Callers, v \in VaultIds, call \in {<<1, 0>>, <<0, 1>>}}
    \cup {[f |-> "withdraw", c |-> c, v |-> v, x |-> seed, y |-> 0] :
             c \in Callers, v \in VaultIds, seed \in {0, 1}}
    \cup {[f |-> "fundContract", c |-> c, v |-> 0, x |-> 0, y |-> 1] :
             c \in Callers}
    \cup {[f |-> "fundContractToken", c |-> c, v |-> 0, x |-> 1, y |-> 0] :
             c \in Callers}
    \cup {[f |-> "createVault", c |-> c, v |-> 0, x |-> ZeroAddress,
           y |-> 5000] : c \in Callers}
    \cup {[f |-> "setAdminWallet", c |-> c, v |-> 0, x |-> 2, y |-> 0] :
             c \in Callers}
    \cup {[f |-> "transferOwnership", c |-> c, v |-> 0, x |-> 2, y |-> 0] :
             c \in Callers}
    \cup {[f |-> "renounceOwnership", c |-> c, v |-> 0, x |-> 0, y |-> 0] :
             c \in Callers}

NoOne == [a \in Addr |-> 0]

\* the zero-initialised VaultInfo every storage slot of `vaults` starts as
EmptyVault ==
    [token |-> ZeroAddress, totalDeposits |-> 0, creationTime |-> 0,
     duration |-> 0, interestRate |-> 0, active |-> FALSE,
     winnerSelected |-> FALSE, winner |-> ZeroAddress,
     depositors |-> <<>>, deposits |-> NoOne]

\* floor(a * b / c), evaluated in split form so that no intermediate value
\* exceeds the result by more than c * c (TLC integers are 32 bits wide, the
\* contract's are 256 bits wide and do not overflow on the inputs used here)
MulDiv(a, b, c) ==
    (a \div c) * b + (a % c) * (b \div c) + ((a % c) * (b % c)) \div c

\* mutant of Interest: the division by 10000 * 365 days is taken on the rate
\* and the duration before the principal is multiplied in
InterestDividesFirst(principal, interestRate, duration) ==
    principal * (MulDiv(interestRate, duration, BpsDenominator)
                     \div SecondsPerYear)

\* (principal * interestRate * duration) / (10000 * 365 days); dividing by
\* 10000 and then by 365 days is the same floor
Interest(principal, interestRate, duration) ==
    MulDiv(principal * interestRate, duration, BpsDenominator) \div SecondsPerYear

\* block.timestamp >= vault.creationTime + vault.duration
Matured(vault) == now >= vault.creationTime + vault.duration

\* set of the addresses in a depositors array
Members(depositors) == {depositors[i] : i \in 1..Len(depositors)}

RECURSIVE SumOver(_, _, _)
\* sum of f[list[i]] for i in 1..n
SumOver(f, list, n) ==
    IF n = 0 THEN 0 ELSE SumOver(f, list, n - 1) + f[list[n]]

RECURSIVE SumSet(_, _)
\* the sum of f[x] for x in S
SumSet(f, S) ==
    IF S = {} THEN 0
    ELSE LET x == CHOOSE y \in S : TRUE IN f[x] + SumSet(f, S \ {x})

\* the contract after its constructor
Deployed ==
    /\ vaults = [v \in VaultIds |-> EmptyVault]
    /\ claimableAmounts = [v \in VaultIds |-> NoOne]
    /\ vaultCount = 0
    /\ adminWallet = Deployer
    /\ owner = Deployer
    /\ balance = [t \in Assets |-> 0]
    /\ funded = [t \in Assets |-> 0]
    /\ now = StartTime
    /\ withdrew = {}
    /\ emittedInterest = [v \in VaultIds |-> <<>>]

\* the bounds of a specification that creates MaxVaults vaults
Caps == [vaults |-> MaxVaults, total |-> MaxTotal, funded |-> MaxFunded]

\* the bounds of a specification that creates one vault more
CapsOfMore ==
    [vaults |-> MaxVaults + 1, total |-> MaxTotalOfMore,
     funded |-> MaxFundedOfMore]

Init ==
    /\ caps = Caps
    /\ Deployed /\ tracking = FALSE /\ callbacks = TRUE /\ interestCalc = <<>>

\* the same contract, with one vault more and lower caps
InitVaults ==
    /\ caps = CapsOfMore
    /\ Deployed /\ tracking = FALSE /\ callbacks = TRUE /\ interestCalc = <<>>

\* the bounds of the specification that records the calls of every
\* transaction
CapsOfRoles ==
    [vaults |-> MaxVaults, total |-> MaxTotalOfRoles, funded |-> MaxFunded]

\* the same contract, with the histories recorded, under the bounds
\* CapsOfRoles
InitRoles ==
    /\ caps = CapsOfRoles
    /\ Deployed /\ tracking = TRUE /\ callbacks = TRUE /\ interestCalc = <<>>

\* the same contract, with the withdraw history and the events recorded
InitTracked ==
    /\ caps = Caps
    /\ Deployed /\ tracking = TRUE /\ callbacks = TRUE /\ interestCalc = <<>>

\* the same contract, called by plain accounts and holding plain tokens:
\* nothing calls back into it
InitDepositors ==
    /\ caps = Caps
    /\ Deployed /\ tracking = TRUE /\ callbacks = FALSE /\ interestCalc = <<>>

(* ------------------- the contract's state inside a call ----------------- *)
\* the contract's storage and holdings as a call finds them.  A call is an
\* operator from this record and the call's inputs to "ok" and the record
\* the call leaves, or to the reason of the revert and the record as it was.
World ==
    [vaults |-> vaults, claimableAmounts |-> claimableAmounts,
     vaultCount |-> vaultCount, adminWallet |-> adminWallet, owner |-> owner,
     balance |-> balance, funded |-> funded, withdrew |-> withdrew,
     emittedInterest |-> emittedInterest, calls |-> <<>>]

\* a call that reverts: nothing it wrote is kept
Reverted(w, reason) == [res |-> reason, w |-> w]

\* a call that returns
Returned(w) == [res |-> "ok", w |-> w]

\* the successful call of an access-controlled function, as the history of
\* the transaction records it: the function, its caller, the administrator
\* and the owner at the moment of the call, and the call's argument
Logged(w, f, caller, arg) ==
    IF tracking
    THEN [w EXCEPT !.calls = Append(@, [f |-> f, c |-> caller,
                                        admin |-> w.adminWallet,
                                        owner |-> w.owner, x |-> arg])]
    ELSE w

\* what the administrator has added to the contract's holdings
FundedTotal(w) == w.funded[ZeroAddress] + w.funded[TokenT]

\* the model's bounds on a state
WithinBounds(w) ==
    /\ w.vaultCount <= caps.vaults
    /\ SumSet([v \in VaultIds |-> w.vaults[v].totalDeposits], VaultIds)
           <= caps.total
    /\ FundedTotal(w) <= caps.funded

\* Ownable's modifier onlyOwner (OpenZeppelin, imported at line 4)
OnlyOwner(w, caller) ==
    IF caller = w.owner THEN "ok" ELSE "OwnableUnauthorizedAccount"

\* setAdminWallet: "ok" or the reason of the revert
SetAdminWalletChecks(w, caller, newAdmin) ==
    IF OnlyOwner(w, caller) # "ok" THEN OnlyOwner(w, caller)
    ELSE IF newAdmin = ZeroAddress THEN "Invalid address"
    ELSE "ok"

\* setAdminWallet(_adminWallet) external onlyOwner
setAdminWalletCall(w, caller, newAdmin) ==
    IF SetAdminWalletChecks(w, caller, newAdmin) # "ok"
    THEN Reverted(w, SetAdminWalletChecks(w, caller, newAdmin))
    ELSE Returned([Logged(w, "setAdminWallet", caller, newAdmin)
                      EXCEPT !.adminWallet = newAdmin])

\* Ownable.transferOwnership: "ok" or the error of the revert
TransferOwnershipChecks(w, caller, newOwner) ==
    IF OnlyOwner(w, caller) # "ok" THEN OnlyOwner(w, caller)
    ELSE IF newOwner = ZeroAddress THEN "OwnableInvalidOwner"
    ELSE "ok"

\* Ownable.transferOwnership(newOwner) public virtual onlyOwner, inherited
\* by the contract (line 9)
transferOwnershipCall(w, caller, newOwner) ==
    IF TransferOwnershipChecks(w, caller, newOwner) # "ok"
    THEN Reverted(w, TransferOwnershipChecks(w, caller, newOwner))
    ELSE Returned([w EXCEPT !.owner = newOwner])

\* Ownable.renounceOwnership() public virtual onlyOwner, inherited by the
\* contract (line 9): the owner becomes address(0)
renounceOwnershipCall(w, caller) ==
    IF OnlyOwner(w, caller) # "ok"
    THEN Reverted(w, OnlyOwner(w, caller))
    ELSE Returned([w EXCEPT !.owner = ZeroAddress])

\* mutant of OnlyAdmin: the require of line 61 is missing
OnlyAdminAnyCaller(w, caller) == "ok"

\* modifier onlyAdmin
OnlyAdmin(w, caller) ==
    IF caller = w.adminWallet THEN "ok" ELSE "Caller is not the admin"

\* createVault: "ok" or the reason of the revert
CreateVaultChecks(w, caller, interestRate) ==
    IF OnlyAdmin(w, caller) # "ok" THEN OnlyAdmin(w, caller)
    ELSE IF ~(interestRate > 0) THEN "Interest rate must be greater than 0"
    ELSE "ok"

\* createVault(_name, _token, _duration, _interestRate) external onlyAdmin;
\* an id beyond the model's vault ids is counted and not stored
createVaultCall(w, caller, token, duration, interestRate) ==
    IF CreateVaultChecks(w, caller, interestRate) # "ok"
    THEN Reverted(w, CreateVaultChecks(w, caller, interestRate))
    ELSE LET vaultId == w.vaultCount IN
         Returned([Logged(w, "createVault", caller, vaultId) EXCEPT
            !.vaultCount = @ + 1,
            !.vaults = IF vaultId \in VaultIds
                       THEN [@ EXCEPT ![vaultId] =
                               [@ EXCEPT !.token = token,
                                         !.creationTime = now,
                                         !.duration = duration,
                                         !.interestRate = interestRate,
                                         !.active = TRUE]]
                       ELSE @])

\* mutant of DepositChecks: the require of lines 105-108 is missing
DepositChecksNoWindow(vault, amount, value) ==
    IF ~vault.active THEN "Vault is not active"
    ELSE IF vault.token = ZeroAddress
    THEN IF ~(value > 0) THEN "Cannot deposit 0" ELSE "ok"
    ELSE IF ~(amount > 0) THEN "Cannot deposit 0"
    ELSE IF ~(value = 0) THEN "Don't send ETH for token deposits"
    ELSE "ok"

\* deposit, lines 102-119: "ok" or the reason of the first failing require
DepositChecks(vault, amount, value) ==
    IF ~vault.active THEN "Vault is not active"
    ELSE IF ~(now < vault.creationTime + vault.duration)
    THEN "Vault deposit period has ended"
    ELSE IF vault.token = ZeroAddress
    THEN IF ~(value > 0) THEN "Cannot deposit 0" ELSE "ok"
    ELSE IF ~(amount > 0) THEN "Cannot deposit 0"
    ELSE IF ~(value = 0) THEN "Don't send ETH for token deposits"
    ELSE "ok"

\* deposit, lines 128-133: first-time depositors are appended to the array,
\* then the amount is added to the sender's principal and to totalDeposits
DepositCredit(vault, sender, depositAmount) ==
    [vault EXCEPT
       !.depositors = IF vault.deposits[sender] = 0
                      THEN Append(@, sender) ELSE @,
       !.deposits[sender] = @ + depositAmount,
       !.totalDeposits = @ + depositAmount]

\* deposit: the call's result.  `value` is msg.value, which a native vault
\* receives with the call; `ext` is what the token's transferFrom does: it
\* moves the funds, returns false or reverts, and its return value is not
\* looked at (line 120).  The requires of lines 102-119 read the vault as
\* the call finds it; the credit of lines 128-133 is written to `mid`, the
\* vault as storage holds it when transferFrom has returned.  moved is the
\* amount that reached the contract.
DepositResultAfter(vault, mid, sender, amount, value, ext) ==
    LET native == vault.token = ZeroAddress
        depositAmount == IF native THEN value ELSE amount
        checks == DepositChecks(vault, amount, value)
    IN  IF checks # "ok"
        THEN [res |-> checks, vault |-> vault, moved |-> 0]
        ELSE IF ~native /\ ext = "revert"
        THEN [res |-> "transferFrom reverted", vault |-> vault, moved |-> 0]
        ELSE [res |-> "ok",
              vault |-> DepositCredit(mid, sender, depositAmount),
              moved |-> IF native \/ ext = "ok" THEN depositAmount ELSE 0]

\* deposit with nothing written to the vault while transferFrom runs
DepositResult(vault, sender, amount, value, ext) ==
    DepositResultAfter(vault, vault, sender, amount, value, ext)

\* _calculateTotalInterest: the sum of every depositor's simple interest
_calculateTotalInterest(vault) ==
    SumOver([a \in Addr |->
                Interest(vault.deposits[a], vault.interestRate, vault.duration)],
            vault.depositors, Len(vault.depositors))

\* mutant of WinnerOf: the seed indexes the accounts, not the depositors array
WinnerOfAnyAccount(depositors, randomSeed) ==
    (randomSeed % Cardinality(Addr)) + 1

\* _selectWinner, lines 151-152: randomSeed % depositors.length indexes the
\* array (TLA+ sequences start at 1)
WinnerOf(depositors, randomSeed) ==
    depositors[(randomSeed % Len(depositors)) + 1]

\* mutant of ClaimableAfterSelection: every depositor is granted the interest
ClaimableEveryoneWins(vault, claimable, winner, totalInterest) ==
    [a \in Addr |->
        IF a \in Members(vault.depositors)
        THEN vault.deposits[a] + totalInterest
        ELSE claimable[a]]

\* _selectWinner, lines 161-171: the claimable amount of every depositor
ClaimableAfterSelection(vault, claimable, winner, totalInterest) ==
    [a \in Addr |->
        IF a \in Members(vault.depositors)
        THEN IF a = winner
             THEN vault.deposits[a] + totalInterest
             ELSE vault.deposits[a]
        ELSE claimable[a]]

\* _selectWinner(_vaultId): res is "ok" or the reason of the failed require;
\* randomSeed stands for keccak256(prevrandao, _vaultId, timestamp)
_selectWinner(vault, claimable, randomSeed) ==
    IF vault.winnerSelected
    THEN [res |-> "Winner already selected", vault |-> vault,
          claimable |-> claimable]
    ELSE IF ~(Len(vault.depositors) > 0)
    THEN [res |-> "No depositors", vault |-> vault, claimable |-> claimable]
    ELSE LET winner == WinnerOf(vault.depositors, randomSeed)
             totalInterest == _calculateTotalInterest(vault)
         IN  [res |-> "ok",
              vault |-> [vault EXCEPT !.winner = winner,
                                      !.winnerSelected = TRUE],
              claimable |-> ClaimableAfterSelection(vault, claimable, winner,
                                                    totalInterest)]

RECURSIVE IndexOf(_, _, _)
\* the first index i >= from with list[i] = x, or 0 when there is none
IndexOf(list, x, from) ==
    IF from > Len(list) THEN 0
    ELSE IF list[from] = x THEN from
    ELSE IndexOf(list, x, from + 1)

\* mutant of _removeDepositor: the array is popped without the swap
_removeDepositorPopsLast(depositors, depositor) ==
    LET i == IndexOf(depositors, depositor, 1)
        n == Len(depositors)
    IN  IF i = 0 THEN depositors ELSE SubSeq(depositors, 1, n - 1)

\* _removeDepositor: the first entry equal to _depositor is overwritten with
\* the last entry, and the array is popped
_removeDepositor(depositors, depositor) ==
    LET i == IndexOf(depositors, depositor, 1)
        n == Len(depositors)
    IN  IF i = 0 THEN depositors
        ELSE SubSeq([depositors EXCEPT ![i] = depositors[n]], 1, n - 1)

\* mutant of SelectionDue: > for >= in the maturity test
SelectionDueStrictlyAfter(vault) ==
    now > vault.creationTime + vault.duration /\ ~vault.winnerSelected

\* withdraw, lines 184-187: settlement is due
SelectionDue(vault) == Matured(vault) /\ ~vault.winnerSelected

\* withdraw, lines 192-196: the claimable amount, or the principal when no
\* claimable amount is set
AmountToClaim(claimable, principal) ==
    IF claimable = 0 THEN principal ELSE claimable

\* mutant of WithdrawUpdate: the winner's claim also clears the selection
WithdrawUpdateResetsWinner(vault, sender) ==
    [vault EXCEPT
       !.deposits[sender] = 0,
       !.totalDeposits = @ - vault.deposits[sender],
       !.depositors = _removeDepositor(@, sender),
       !.winnerSelected = IF sender = vault.winner THEN FALSE ELSE @]

\* withdraw, lines 212-216: the sender's principal is zeroed and taken off
\* totalDeposits, and the sender is removed from the depositors array
WithdrawUpdate(vault, sender) ==
    [vault EXCEPT
       !.deposits[sender] = 0,
       !.totalDeposits = @ - vault.deposits[sender],
       !.depositors = _removeDepositor(@, sender)]

\* mutant of WithdrawChecks: the require of line 181 is missing
WithdrawChecksNoDepositRequire(vault, sender) ==
    IF ~vault.active THEN "Vault inactive" ELSE "ok"

\* withdraw, lines 180-181: "ok" or the reason of the first failing require
WithdrawChecks(vault, sender) ==
    IF ~vault.active THEN "Vault inactive"
    ELSE IF ~(vault.deposits[sender] > 0) THEN "No deposit"
    ELSE "ok"

\* withdraw: the call's result.  held is the contract's holding of the
\* vault's asset; `ext` is what the transfer to the sender does: a native
\* call that returns false fails the require of line 221, a token transfer
\* that returns false or reverts makes safeTransfer revert.
WithdrawResult(vault, claimable, held, sender, randomSeed, ext) ==
    LET native == vault.token = ZeroAddress
        sel == IF SelectionDue(vault)
               THEN _selectWinner(vault, claimable, randomSeed)
               ELSE [res |-> "ok", vault |-> vault, claimable |-> claimable]
        amountToClaim == AmountToClaim(sel.claimable[sender],
                                       sel.vault.deposits[sender])
        fail(reason) == [res |-> reason, vault |-> vault,
                         claimable |-> claimable, amount |-> 0]
    IN  IF WithdrawChecks(vault, sender) # "ok"
        THEN fail(WithdrawChecks(vault, sender))
        ELSE IF sel.res # "ok" THEN fail(sel.res)
        ELSE IF ~(held >= amountToClaim)
        THEN fail(IF native THEN "Insufficient contract ETH"
                  ELSE "Insufficient contract tokens")
        ELSE IF ext # "ok"
        THEN fail(IF native THEN "Transfer failed"
                  ELSE "SafeERC20FailedOperation")
        ELSE [res |-> "ok",
              vault |-> WithdrawUpdate(sel.vault, sender),
              claimable |-> [sel.claimable EXCEPT ![sender] = 0],
              amount |-> amountToClaim]

\* deleteVault, lines 262-270: principal plus, once the duration has passed,
\* the depositor's own interest
DeleteAmount(vault, amount) ==
    amount + (IF Matured(vault)
              THEN Interest(amount, vault.interestRate, vault.duration)
              ELSE 0)

\* deleteVault, lines 275-279: the transfer of totalAmount to depositor out
\* of the holding st.held.  A transfer fails when the recipient is in
\* `rejecting` or the holding is too small; a failed native call reverts
\* (line 276), a failed token transfer reverts or returns false as `mode`
\* says, and the returned false is not looked at (line 279).
PayoutTransfer(vault, rejecting, mode, depositor, totalAmount, st) ==
    IF ~(depositor \in rejecting \/ st.held < totalAmount)
    THEN [st EXCEPT !.held = @ - totalAmount,
                    !.paid[depositor] = @ + totalAmount]
    ELSE IF vault.token = ZeroAddress
    THEN [st EXCEPT !.res = "Transfer failed",
                    !.failed = @ \cup {depositor}]
    ELSE IF mode = "revert"
    THEN [st EXCEPT !.res = "transfer reverted",
                    !.failed = @ \cup {depositor}]
    ELSE [st EXCEPT !.failed = @ \cup {depositor}]

\* deleteVault, lines 256-281: one iteration of the payout loop.  st carries
\* the principals, the contract's holding of the vault's asset, what was
\* paid, the transfers that moved nothing, and "ok" or the revert reason.
\* The principal is set to zero (line 260) before the transfer.
PayoutStep(vault, rejecting, mode, depositor, st) ==
    IF ~(st.deposits[depositor] > 0) THEN st
    ELSE PayoutTransfer(vault, rejecting, mode, depositor,
                        DeleteAmount(vault, st.deposits[depositor]),
                        [st EXCEPT !.deposits[depositor] = 0])

RECURSIVE DeleteLoop(_, _, _, _, _, _)
\* deleteVault, line 255: the iterations i..last of
\* for (i = 0; i < depositors.length; i++), stopped by a revert
DeleteLoop(vault, rejecting, mode, i, last, st) ==
    IF i > last \/ st.res # "ok" THEN st
    ELSE DeleteLoop(vault, rejecting, mode, i + 1, last,
                    PayoutStep(vault, rejecting, mode, vault.depositors[i], st))

\* deleteVault, lines 249-250: "ok" or the reason of the revert
DeleteChecks(w, vault, caller) ==
    IF OnlyAdmin(w, caller) # "ok" THEN OnlyAdmin(w, caller)
    ELSE IF ~vault.active THEN "Vault is not active"
    ELSE "ok"

\* deleteVault: the result of a call during which nothing calls back into
\* the contract; held is the contract's holding of the vault's asset
DeleteResult(w, vault, held, caller, rejecting, mode) ==
    LET start == [deposits |-> vault.deposits, held |-> held,
                  paid |-> NoOne, failed |-> {}, res |-> "ok"]
    IN  IF DeleteChecks(w, vault, caller) # "ok"
        THEN [start EXCEPT !.res = DeleteChecks(w, vault, caller)]
        ELSE DeleteLoop(vault, rejecting, mode, 1, Len(vault.depositors),
                        start)

\* modifier nonReentrant (lines 99 and 178): a call that arrives while a
\* guarded function of the contract is running reverts
nonReentrant(entered) ==
    IF entered THEN "ReentrancyGuardReentrantCall" ELSE "ok"

\* deposit, called while the contract is inside an external transfer;
\* entered says whether the function making the transfer holds the guard
ReenteredDeposit(entered, vault, sender, amount, value, ext) ==
    IF nonReentrant(entered) # "ok"
    THEN [res |-> nonReentrant(entered), vault |-> vault, moved |-> 0]
    ELSE DepositResult(vault, sender, amount, value, ext)

\* withdraw, called while the contract is inside an external transfer
ReenteredWithdraw(entered, vault, claimable, held, sender, randomSeed, ext) ==
    IF nonReentrant(entered) # "ok"
    THEN [res |-> nonReentrant(entered), vault |-> vault,
          claimable |-> claimable, amount |-> 0]
    ELSE WithdrawResult(vault, claimable, held, sender, randomSeed, ext)

\* deleteVault, called while the contract is inside an external transfer:
\* the function has no nonReentrant modifier (line 248)
ReenteredDeleteVault(entered, w, vault, held, caller, rejecting, mode) ==
    DeleteResult(w, vault, held, caller, rejecting, mode)

\* the vault as deleteVault has written it when it makes the transfer of
\* its k-th iteration (lines 252 and 260); deleteVault holds no guard
DeleteInTransfer(vault, k) ==
    [vault EXCEPT
       !.active = FALSE,
       !.deposits = [a \in Addr |->
                        IF \E i \in 1..k : vault.depositors[i] = a
                        THEN 0 ELSE vault.deposits[a]]]

\* fundContractToken: "ok" or the reason of the revert
FundContractTokenChecks(w, caller, token, ext) ==
    IF OnlyAdmin(w, caller) # "ok" THEN OnlyAdmin(w, caller)
    ELSE IF token = ZeroAddress THEN "Invalid token address"
    ELSE IF ext = "revert" THEN "transferFrom reverted"
    ELSE "ok"

\* In the operators below an external call hands control to the token
\* contract or to the recipient, which may call back into the contract
\* before the external call returns.  A call made back runs on the storage
\* written up to that point, is itself a call of the contract with every
\* outcome of its own transfers, and is caught by its caller when it
\* reverts.  The result of a function is therefore a set: one result for
\* each way the parties it hands control to behave.

\* the contract's state with `moved` more of the asset in its holdings
Received(w, token, moved) == [w EXCEPT !.balance[token] = @ + moved]

\* the contract's state with `amount` of the asset gone from its holdings
Sent(w, token, amount) == [w EXCEPT !.balance[token] = @ - amount]

\* fundContract() external payable onlyAdmin
fundContractCall(w, caller, value) ==
    IF OnlyAdmin(w, caller) # "ok" THEN Reverted(w, OnlyAdmin(w, caller))
    ELSE Returned([Logged(w, "fundContract", caller, value) EXCEPT
                      !.balance[ZeroAddress] = @ + value,
                      !.funded[ZeroAddress] = @ + value])

RECURSIVE CallsBack(_, _, _, _)

\* the states a transferFrom into the contract can return in, when it has
\* moved `moved` into the contract's holdings: the token makes up to
\* MaxCallsBack calls back into the contract, some before it moves the
\* funds and the others after
TransferredIn(w, entered, token, moved, depth) ==
    IF moved = 0 THEN CallsBack({w}, entered, depth, MaxCallsBack)
    ELSE UNION {CallsBack({Received(b, token, moved) :
                              b \in CallsBack({w}, entered, depth, before)},
                          entered, depth, MaxCallsBack - before) :
                   before \in 0..MaxCallsBack}

\* the move of `amount` out of the holdings in state b, and the up to
\* `calls` calls made back into the contract after it.  The move fails when
\* the holdings are too small, and when the recipient rejects it, which it
\* does or does not where mayReject; [ok, w] says whether the funds have
\* moved and the state the transfer ends in.
TransferMoves(b, entered, token, mayReject, amount, depth, calls) ==
    (IF mayReject \/ b.balance[token] < amount
     THEN {[ok |-> FALSE, w |-> b]} ELSE {})
    \cup (IF b.balance[token] < amount THEN {}
          ELSE {[ok |-> TRUE, w |-> a] :
                   a \in CallsBack({Sent(b, token, amount)}, entered, depth,
                                   calls)})

\* the ways a transfer of `amount` out of the contract can end.  The
\* recipient of a native payout runs when the funds have left (lines 220
\* and 275), and what it has called is undone when it rejects the payout; a
\* token runs in every transfer (lines 222 and 279), before and after it
\* moves the funds, and also when it moves none.
TransferredOut(w, entered, token, mayReject, amount, depth) ==
    IF token = ZeroAddress
    THEN TransferMoves(w, entered, token, mayReject, amount, depth,
                       MaxCallsBack)
    ELSE UNION {UNION {TransferMoves(b, entered, token, mayReject, amount,
                                     depth, MaxCallsBack - before) :
                          b \in CallsBack({w}, entered, depth, before)} :
                   before \in 0..MaxCallsBack}

\* deposit(_vaultId, _amount) external payable nonReentrant.  A token
\* deposit hands control to the token contract in transferFrom (line 120),
\* between the requires and the credit, while deposit holds the guard; the
\* requires read the state w, the credit is written on top of `back`, the
\* state transferFrom returns in.
depositWith(w, entered, caller, vaultId, amount, value, ext, back) ==
    LET vault == w.vaults[vaultId]
        r == DepositResultAfter(vault, back.vaults[vaultId], caller, amount,
                                value, ext)
    IN  IF nonReentrant(entered) # "ok"
        THEN Reverted(w, nonReentrant(entered))
        ELSE IF r.res # "ok" THEN Reverted(w, r.res)
        ELSE Returned([back EXCEPT
                 !.vaults[vaultId] = r.vault,
                 !.withdrew = IF tracking THEN @ \ {<<vaultId, caller>>}
                              ELSE @])

\* whether deposit reaches its transferFrom (line 120)
DepositCallsOut(w, entered, vaultId, amount, value) ==
    /\ nonReentrant(entered) = "ok"
    /\ DepositChecks(w.vaults[vaultId], amount, value) = "ok"
    /\ w.vaults[vaultId].token # ZeroAddress

\* what a deposit brings into the contract: msg.value, or what the token's
\* transferFrom moves
DepositMoved(vault, amount, value, ext) ==
    IF vault.token = ZeroAddress THEN value
    ELSE IF ext = "ok" THEN amount ELSE 0

\* deposit: the results of the call, one for each state its transferFrom
\* can return in
depositResults(w, entered, caller, vaultId, amount, value, ext, depth) ==
    LET token == w.vaults[vaultId].token
        moved == DepositMoved(w.vaults[vaultId], amount, value, ext)
    IN  IF DepositCallsOut(w, entered, vaultId, amount, value)
           /\ ext # "revert"
        THEN {depositWith(w, entered, caller, vaultId, amount, value, ext,
                          back) :
                 back \in TransferredIn(w, TRUE, token, moved, depth)}
        ELSE {depositWith(w, entered, caller, vaultId, amount, value, ext,
                          Received(w, token, moved))}

\* withdraw, lines 180-216: what the call whose requires and settlement
\* end as r says has written when it reaches its transfer
WithdrawWrites(w, caller, vaultId, r) ==
    IF r.res # "ok" THEN [res |-> r.res, w |-> w, amount |-> 0]
    ELSE [res |-> "ok",
          w |-> [w EXCEPT
                    !.vaults[vaultId] = r.vault,
                    !.claimableAmounts[vaultId] = r.claimable,
                    !.withdrew = IF tracking THEN @ \cup {<<vaultId, caller>>}
                                 ELSE @,
                    !.emittedInterest =
                        IF tracking /\ SelectionDue(w.vaults[vaultId])
                        THEN [@ EXCEPT ![vaultId] =
                                 <<_calculateTotalInterest(w.vaults[vaultId])>>]
                        ELSE @],
          amount |-> r.amount]

\* withdraw(_vaultId) external nonReentrant, as far as its transfer (lines
\* 219-224), which comes after every write of the call
withdrawWritten(w, entered, caller, vaultId, randomSeed, ext) ==
    WithdrawWrites(w, caller, vaultId,
                   ReenteredWithdraw(entered, w.vaults[vaultId],
                                     w.claimableAmounts[vaultId],
                                     w.balance[w.vaults[vaultId].token],
                                     caller, randomSeed, ext))

\* withdraw, lines 219-224: the result of the call that has written r, when
\* its transfer has ended as t says.  A transfer that fails reverts the
\* call (lines 221 and 222), with what was called from inside it.
WithdrawTransferred(w, token, r, t) ==
    IF t.ok THEN [r EXCEPT !.w = t.w]
    ELSE [res |-> IF token = ZeroAddress THEN "Transfer failed"
                  ELSE "SafeERC20FailedOperation",
          w |-> w, amount |-> 0]

\* withdraw: the results of the call, one for each way its transfer can
\* end.  withdraw holds the guard while the transfer runs; amount is what
\* the call hands to the transfer.
withdrawResults(w, entered, caller, vaultId, randomSeed, ext, depth) ==
    UNION {IF r.res # "ok" THEN {r}
           ELSE {WithdrawTransferred(w, w.vaults[vaultId].token, r, t) :
                    t \in TransferredOut(r.w, TRUE, w.vaults[vaultId].token,
                                         FALSE, r.amount, depth)} :
              r \in {withdrawWritten(w, entered, caller, vaultId, randomSeed,
                                     ext)}}

\* deleteVault, lines 275-279: the ways the iteration goes on when its
\* transfer has ended as t says.  A native call that fails reverts (line
\* 276); a token transfer that fails has reverted or has returned false,
\* and the returned false is not looked at (line 279).
PayoutTransferred(token, t) ==
    IF t.ok THEN {Returned(t.w)}
    ELSE IF token = ZeroAddress THEN {Reverted(t.w, "Transfer failed")}
    ELSE {Reverted(t.w, "transfer reverted"), Returned(t.w)}

\* deleteVault, lines 256-281: the iteration i of the payout loop, on the
\* storage and holdings of run.w.  The principal is set to zero (line 260)
\* before the transfer, which hands control out and which the recipient
\* accepts or rejects.
PayoutRuns(run, entered, vaultId, i, depth) ==
    LET vault == run.w.vaults[vaultId]
        depositor == vault.depositors[i]
        amount == vault.deposits[depositor]
        zeroed == [run.w EXCEPT !.vaults[vaultId].deposits[depositor] = 0]
    IN  IF ~(amount > 0) THEN {run}
        ELSE UNION {PayoutTransferred(vault.token, t) :
                       t \in TransferredOut(zeroed, entered, vault.token, TRUE,
                                            DeleteAmount(vault, amount),
                                            depth)}

RECURSIVE DeleteFrom(_, _, _, _, _)
\* deleteVault, line 255: the loop from iteration i on, stopped by a
\* revert; depositors.length is read from storage in every iteration
DeleteFrom(run, entered, vaultId, i, depth) ==
    IF run.res # "ok" \/ i > Len(run.w.vaults[vaultId].depositors)
    THEN {run}
    ELSE UNION {DeleteFrom(next, entered, vaultId, i + 1, depth) :
                   next \in PayoutRuns(run, entered, vaultId, i, depth)}

\* deleteVault(_vaultId) external onlyAdmin, with no reentrancy guard: the
\* results of the call, one for each way its transfers can end.  active is
\* cleared (line 252) before the loop; a revert keeps nothing.
deleteVaultResults(w, entered, caller, vaultId, depth) ==
    IF DeleteChecks(w, w.vaults[vaultId], caller) # "ok"
    THEN {Reverted(w, DeleteChecks(w, w.vaults[vaultId], caller))}
    ELSE {IF run.res = "ok" THEN run ELSE Reverted(w, run.res) :
             run \in DeleteFrom(
                 Returned([Logged(w, "deleteVault", caller, vaultId)
                              EXCEPT !.vaults[vaultId].active = FALSE]),
                 entered, vaultId, 1, depth)}

\* what fundContractToken brings into the contract
FundMoved(amount, ext) == IF ext = "ok" THEN amount ELSE 0

\* fundContractToken(_token, _amount) external onlyAdmin, with no
\* reentrancy guard: the results of the call, one for each state its
\* transferFrom can return in; the return value of transferFrom is not
\* looked at (line 408)
fundContractTokenResults(w, entered, caller, token, amount, ext, depth) ==
    IF FundContractTokenChecks(w, caller, token, ext) # "ok"
    THEN {Reverted(w, FundContractTokenChecks(w, caller, token, ext))}
    ELSE {Returned([back EXCEPT !.funded[token] = @ + FundMoved(amount, ext)]) :
             back \in TransferredIn(
                 Logged(w, "fundContractToken", caller, amount), entered,
                 token, FundMoved(amount, ext), depth)}

\* what the transferFrom of a deposit can do: an input of the calls that
\* reach line 120
DepositOutcomes(w, entered, vaultId, amount, value) ==
    IF DepositCallsOut(w, entered, vaultId, amount, value)
    THEN Outcomes ELSE {"ok"}

\* what the transfer of a withdraw can do: an input of the calls that pass
\* the requires of lines 180-181
WithdrawOutcomes(w, entered, caller, vaultId) ==
    IF nonReentrant(entered) = "ok"
       /\ WithdrawChecks(w.vaults[vaultId], caller) = "ok"
    THEN Outcomes ELSE {"ok"}

\* what the transferFrom of fundContractToken can do: an input of the
\* calls that reach line 408
FundOutcomes(w, caller, token) ==
    IF FundContractTokenChecks(w, caller, token, "ok") = "ok"
    THEN Outcomes ELSE {"ok"}

\* the results of the call n, with every outcome of its own transfers
CallResults(w, entered, n, depth) ==
    CASE n.f = "deposit" ->
             UNION {depositResults(w, entered, n.c, n.v, n.x, n.y, ext,
                                   depth) :
                       ext \in DepositOutcomes(w, entered, n.v, n.x, n.y)}
      [] n.f = "withdraw" ->
             UNION {{Returned(r.w) :
                        r \in {x \in withdrawResults(w, entered, n.c, n.v, n.x,
                                                     ext, depth) :
                                  x.res = "ok"}} :
                       ext \in WithdrawOutcomes(w, entered, n.c, n.v)}
      [] n.f = "deleteVault" ->
             deleteVaultResults(w, entered, n.c, n.v, depth)
      [] n.f = "fundContract" -> {fundContractCall(w, n.c, n.y)}
      [] n.f = "fundContractToken" ->
             UNION {fundContractTokenResults(w, entered, n.c, TokenT, n.x,
                                             ext, depth) :
                       ext \in FundOutcomes(w, n.c, TokenT)}
      [] n.f = "createVault" ->
             {createVaultCall(w, n.c, n.x, SecondsPerYear, n.y)}
      [] n.f = "setAdminWallet" -> {setAdminWalletCall(w, n.c, n.x)}
      [] n.f = "transferOwnership" -> {transferOwnershipCall(w, n.c, n.x)}
      [] n.f = "renounceOwnership" -> {renounceOwnershipCall(w, n.c)}

\* the states one call made back into the contract in state w can leave: a
\* call that reverts is caught by its caller and leaves the state as it was
AfterCall(w, entered, depth) ==
    UNION {{r.w : r \in {x \in CallResults(w, entered, n, depth) :
                            x.res = "ok"}} : n \in NestedCalls}

\* the states the contract can be in when the party an external call has
\* handed control to has made up to `calls` calls back into it, starting in
\* a state of ws.  entered says whether the reentrancy guard is held; a
\* call made back may hand control out in turn while depth is above 0.
\* Plain accounts and plain tokens make no call.
CallsBack(ws, entered, depth, calls) ==
    IF ~callbacks \/ depth = 0 \/ calls = 0 THEN ws
    ELSE CallsBack(ws \cup UNION {AfterCall(w, entered, depth - 1) : w \in ws},
                   entered, depth, calls - 1)

(* ------------------------------ actions -------------------------------- *)
\* the step of a transaction whose outermost call has result r: a revert
\* leaves every variable as it was
Step(r) ==
    IF r.res # "ok"
    THEN UNCHANGED vars
    ELSE /\ WithinBounds(r.w)
         /\ vaults' = r.w.vaults
         /\ claimableAmounts' = r.w.claimableAmounts
         /\ vaultCount' = r.w.vaultCount
         /\ adminWallet' = r.w.adminWallet
         /\ owner' = r.w.owner
         /\ balance' = r.w.balance
         /\ funded' = r.w.funded
         /\ withdrew' = r.w.withdrew
         /\ emittedInterest' = r.w.emittedInterest
         /\ UNCHANGED <<now, tracking, callbacks, caps, interestCalc>>

\* time passes between blocks.  The contract reads block.timestamp only
\* against a vault's creationTime, so time starts to count when the first
\* vault exists.
Tick ==
    /\ vaultCount > 0
    /\ now < StartTime + MaxTicks * TimeStep
    /\ now' = now + TimeStep
    /\ UNCHANGED <<vaults, claimableAmounts, vaultCount, adminWallet, owner,
                   balance, funded, tracking, callbacks, caps, withdrew,
                   interestCalc, emittedInterest>>

\* a transaction that calls setAdminWallet(newAdmin)
SetAdminWallet(caller, newAdmin) ==
    \E r \in {setAdminWalletCall(World, caller, newAdmin)} : Step(r)

\* a transaction that calls Ownable's transferOwnership(newOwner)
TransferOwnership(caller, newOwner) ==
    \E r \in {transferOwnershipCall(World, caller, newOwner)} : Step(r)

\* a transaction that calls Ownable's renounceOwnership()
RenounceOwnership(caller) ==
    \E r \in {renounceOwnershipCall(World, caller)} : Step(r)

\* a transaction that calls createVault
CreateVault(caller, token, duration, interestRate) ==
    \E r \in {createVaultCall(World, caller, token, duration, interestRate)} :
        Step(r)

\* a transaction that calls deposit(vaultId, amount) with msg.value
\* `value`.  Where the call reaches line 120 the token's transferFrom is an
\* input: what it does, and what the token calls back into the contract
\* before it returns.
Deposit(caller, vaultId, amount, value) ==
    \E w \in {World} :
    \E ext \in DepositOutcomes(w, FALSE, vaultId, amount, value) :
    \E r \in depositResults(w, FALSE, caller, vaultId, amount, value, ext,
                            MaxDepth) :
        Step(r)

\* a transaction that calls withdraw(vaultId).  The seed of the selection
\* (lines 143-151 hash block values the caller does not choose), the
\* behaviour of the transfer and what is called back into the contract
\* from inside it are inputs.
Withdraw(caller, vaultId) ==
    \E w \in {World} :
    \E randomSeed \in (IF SelectionDue(vaults[vaultId]) THEN Seeds ELSE {0}),
       ext \in WithdrawOutcomes(w, FALSE, caller, vaultId) :
    \E r \in withdrawResults(w, FALSE, caller, vaultId, randomSeed, ext,
                             MaxDepth) :
        Step(r)

\* a transaction that calls deleteVault(vaultId).  Which payouts the
\* recipients reject, what the token does with a transfer that fails, and
\* what is called back into the contract from inside each transfer are
\* inputs.
DeleteVault(caller, vaultId) ==
    \E w \in {World} :
    \E r \in deleteVaultResults(w, FALSE, caller, vaultId, MaxDepth) :
        Step(r)

\* a transaction that calls fundContract() with msg.value `value`
FundContract(caller, value) ==
    \E r \in {fundContractCall(World, caller, value)} : Step(r)

\* a transaction that calls fundContractToken(token, amount).  The token's
\* transferFrom is an input: what it does, and what the token calls back
\* into the contract before it returns.
FundContractToken(caller, token, amount) ==
    \E w \in {World} :
    \E ext \in FundOutcomes(w, caller, token) :
    \E r \in fundContractTokenResults(w, FALSE, caller, token, amount, ext,
                                      MaxDepth) :
        Step(r)

\* hasWinner(_vaultId) external view
hasWinner(vaultId) == vaults[vaultId].winnerSelected

\* getDepositorBalance(_vaultId, _depositor) external view
getDepositorBalance(vault, depositor) ==
    LET principal == vault.deposits[depositor] IN
    [principal |-> principal,
     currentInterest |->
         IF principal > 0 /\ now >= vault.creationTime + vault.duration
         THEN Interest(principal, vault.interestRate, vault.duration)
         ELSE 0]

\* getWinnerInfo(_vaultId) external view: the total interest is computed
\* anew, over the depositors the vault has when the view is called
getWinnerInfo(vault) ==
    IF ~vault.active
    THEN [res |-> "Vault is not active", winner |-> ZeroAddress,
          totalInterest |-> 0]
    ELSE IF ~vault.winnerSelected
    THEN [res |-> "No winner selected yet", winner |-> ZeroAddress,
          totalInterest |-> 0]
    ELSE [res |-> "ok", winner |-> vault.winner,
          totalInterest |-> _calculateTotalInterest(vault)]

\* the transactions the callers send, with every input of each
Next ==
    \/ Tick
    \/ \E c \in Callers, a \in NewAdmins : SetAdminWallet(c, a)
    \/ \E c \in Callers, a \in NewOwners : TransferOwnership(c, a)
    \/ \E c \in Callers : RenounceOwnership(c)
    \/ \E c \in Callers, t \in Assets, d \in Durations, r \in Rates :
           CreateVault(c, t, d, r)
    \/ \E c \in Callers, v \in VaultIds, call \in DepositCalls :
           Deposit(c, v, call[1], call[2])
    \/ \E c \in Callers, v \in VaultIds : Withdraw(c, v)
    \/ \E c \in Callers, v \in VaultIds : DeleteVault(c, v)
    \/ \E c \in Callers, m \in FundAmounts : FundContract(c, m)
    \/ \E c \in Callers, t \in Assets, a \in FundAmounts :
           FundContractToken(c, t, a)

\* the step holds a successful withdraw of address a from vault v, the only
\* call that zeroes a principal and leaves the vault active
WithdrawStep(v, a) ==
    /\ vaults[v].active /\ vaults'[v].active
    /\ vaults[v].deposits[a] > 0 /\ vaults'[v].deposits[a] = 0

\* the step holds a successful withdraw of address a from vault v, as the
\* history records it, and no deposit of a into v after it
WithdrewStep(v, a) == <<v, a>> \notin withdrew /\ <<v, a>> \in withdrew'

\* the step holds a successful deposit of address a into vault v, the only
\* call that raises a principal
DepositStep(v, a) == vaults'[v].deposits[a] > vaults[v].deposits[a]

\* the step holds a successful deleteVault of vault v
DeleteStep(v) == vaults[v].active /\ ~vaults'[v].active

\* the step holds a successful deleteVault of vault v and no deposit into
\* it or withdraw from it
DeleteOnlyStep(v) ==
    DeleteStep(v) /\ vaults'[v].totalDeposits = vaults[v].totalDeposits

\* what the step paid out of the contract's holding of vault v's asset:
\* the fall of the holding, with what was funded in the step added back
PaidOut(v) ==
    LET t == vaults[v].token IN
    balance[t] - balance'[t] + (funded'[t] - funded[t])

Spec == Init /\ [][Next]_vars

\* the same calls, with the withdraw history recorded
SpecTracked == InitTracked /\ [][Next]_vars

\* the same calls, on MaxVaults vaults or on one vault more
SpecVaults == (Init \/ InitVaults) /\ [][Next]_vars

\* the same calls, with the histories recorded, under the bounds CapsOfRoles
SpecRoles == InitRoles /\ [][Next]_vars

\* deposits and withdraws of every address, in every order, by plain
\* accounts, with the histories recorded
NextDepositors ==
    \/ Tick
    \/ \E c \in Callers, t \in Assets, d \in Durations, r \in Rates :
           CreateVault(c, t, d, r)
    \/ \E c \in Addr, v \in VaultIds, call \in DepositCalls :
           Deposit(c, v, call[1], call[2])
    \/ \E c \in Addr, v \in VaultIds : Withdraw(c, v)

SpecDepositors == InitDepositors /\ [][NextDepositors]_vars

(* ---------------------- the interest computations ---------------------- *)
\* a vault of the given rate and duration that has just reached
\* creationTime + duration, with one or two depositors
InterestVault(c) ==
    [EmptyVault EXCEPT
       !.creationTime = now - c.d, !.duration = c.d, !.interestRate = c.r,
       !.active = TRUE, !.totalDeposits = c.p + c.q,
       !.depositors = IF c.q > 0 THEN <<1, 2>> ELSE <<1>>,
       !.deposits = [a \in Addr |-> IF a = 1 THEN c.p
                                    ELSE IF a = 2 THEN c.q ELSE 0]]

\* the contract after its constructor, and the inputs of one computation
InitInterest ==
    /\ caps = Caps
    /\ Deployed
    /\ tracking = FALSE
    /\ callbacks = FALSE
    /\ \E c \in InterestInputs :
           interestCalc = [in |-> c, settlement |-> <<>>, deletion |-> <<>>,
                           view |-> <<>>]

\* _selectWinner's totalInterest (line 156) on the vault
CalcSettlement ==
    /\ interestCalc.settlement = <<>>
    /\ interestCalc' = [interestCalc EXCEPT !.settlement =
           <<_calculateTotalInterest(InterestVault(interestCalc.in))>>]
    /\ UNCHANGED <<vaults, claimableAmounts, vaultCount, adminWallet, owner,
                   balance, funded, now, tracking, callbacks, caps,
                   withdrew, emittedInterest>>

\* deleteVault's interest (lines 262-268) for each depositor of the vault
CalcDeletion ==
    /\ interestCalc.deletion = <<>>
    /\ interestCalc' = [interestCalc EXCEPT !.deletion =
           LET vault == InterestVault(interestCalc.in) IN
           <<[a \in Members(vault.depositors) |->
                 DeleteAmount(vault, vault.deposits[a]) - vault.deposits[a]]>>]
    /\ UNCHANGED <<vaults, claimableAmounts, vaultCount, adminWallet, owner,
                   balance, funded, now, tracking, callbacks, caps,
                   withdrew, emittedInterest>>

\* getDepositorBalance's currentInterest for each depositor of the vault
CalcView ==
    /\ interestCalc.view = <<>>
    /\ interestCalc' = [interestCalc EXCEPT !.view =
           LET vault == InterestVault(interestCalc.in) IN
           <<[a \in Members(vault.depositors) |->
                 getDepositorBalance(vault, a).currentInterest]>>]
    /\ UNCHANGED <<vaults, claimableAmounts, vaultCount, adminWallet, owner,
                   balance, funded, now, tracking, callbacks, caps,
                   withdrew, emittedInterest>>

NextInterest == CalcSettlement \/ CalcDeletion \/ CalcView

SpecInterest == InitInterest /\ [][NextInterest]_vars
(* ------------------------------- claims -------------------------------- *)
\* vault v has been created
Created(v) == v < vaultCount
\* vault v has reached createdAt + duration
AtOrAfterMaturity(v) == now >= vaults[v].creationTime + vaults[v].duration

\* the sum of the principals of the addresses in vault v's depositors array
ListedPrincipal(v) ==
    SumOver(vaults[v].deposits, vaults[v].depositors, Len(vaults[v].depositors))

\* the principals recorded, over all vaults, for asset t
OutstandingPrincipal(t) ==
    SumSet([v \in VaultIds |-> SumSet(vaults[v].deposits, Addr)],
           {v \in VaultIds : vaults[v].token = t})

\* C1: in every reachable state each vault's totalDeposits equals the sum of
\* the principals of the addresses in its depositors array.
C1_TotalPrincipalIsSum ==
    \A v \in VaultIds : vaults[v].totalDeposits = ListedPrincipal(v)

\* C2: in every reachable state a vault's depositors array holds exactly the
\* addresses with a non-zero principal, each once.
C2_DepositorsExactlyPositive ==
    \A v \in VaultIds :
        LET d == vaults[v].depositors IN
        /\ \A i \in 1..Len(d) : vaults[v].deposits[d[i]] > 0
        /\ \A a \in Addr : vaults[v].deposits[a] > 0 => a \in Members(d)
        /\ Cardinality(Members(d)) = Len(d)

\* C3: principal is always reclaimable: the contract's holding of an asset
\* never falls below the principals recorded for that asset, and every
\* address with a principal in an active vault can withdraw, with a
\* recipient that accepts the transfer, and receives at least its principal.
C3_PrincipalReclaimable ==
    /\ \A t \in Assets : balance[t] >= OutstandingPrincipal(t)
    /\ \A v \in VaultIds, a \in Addr :
           vaults[v].active /\ vaults[v].deposits[a] > 0 =>
               \A seed \in Seeds :
                   LET r == WithdrawResult(vaults[v], claimableAmounts[v],
                                balance[vaults[v].token], a, seed, "ok")
                   IN  r.res = "ok" /\ r.amount >= vaults[v].deposits[a]

\* C4: once winnerSelected is true it stays true and the stored winner is
\* never changed by any later call, so selection takes effect at most once.
C4_WinnerSelectedOnce ==
    [][\A v \in VaultIds :
           vaults[v].winnerSelected =>
               /\ vaults'[v].winnerSelected
               /\ vaults'[v].winner = vaults[v].winner]_vars

\* C4 witness: the winner of the first vault was selected and its only
\* depositor has withdrawn; the second vault was created at or after the
\* first one's maturity and has received a deposit since that withdraw
C4_Witness ==
    /\ vaults[0].winnerSelected
    /\ vaults[0].totalDeposits = 0
    /\ Created(1)
    /\ vaults[1].creationTime >= vaults[0].creationTime + vaults[0].duration
    /\ vaults[1].totalDeposits > 0

\* C5: whatever the seed, the winner chosen by settlement is in the
\* depositors array at the moment of selection, with a non-zero principal,
\* and is the only depositor when there is exactly one.
C5_WinnerIsDepositor ==
    [][\A v \in VaultIds :
           ~vaults[v].winnerSelected /\ vaults'[v].winnerSelected =>
               LET d == vaults[v].depositors
                   w == vaults'[v].winner
               IN  /\ w \in Members(d)
                   /\ vaults[v].deposits[w] > 0
                   /\ Len(d) = 1 => w = d[1]]_vars

\* C5 witness: a winner was selected among several depositors and is still
\* in the array after the withdraw that triggered the selection
C5_Witness ==
    \E v \in VaultIds :
        /\ vaults[v].winnerSelected
        /\ vaults[v].winner \in Members(vaults[v].depositors)

\* C6: a successful withdraw before createdAt + duration pays the caller
\* exactly its principal, selects no winner, and leaves every other
\* depositor's principal and membership in depositors unchanged.
C6_EarlyWithdrawPaysPrincipal ==
    \A v \in VaultIds, a \in Addr :
    \A r \in withdrawResults(World, FALSE, a, v, 0, "ok", MaxDepth) :
        r.res = "ok" /\ ~AtOrAfterMaturity(v) =>
            /\ r.amount = vaults[v].deposits[a]
            /\ ~r.w.vaults[v].winnerSelected
            /\ \A b \in Addr \ {a} :
                   /\ r.w.vaults[v].deposits[b] = vaults[v].deposits[b]
                   /\ b \in Members(r.w.vaults[v].depositors)
                          <=> b \in Members(vaults[v].depositors)

RECURSIVE BigOf(_)
\* the natural number n in base 10000, the least significant digit first
BigOf(n) == IF n = 0 THEN <<>> ELSE <<n % 10000>> \o BigOf(n \div 10000)

RECURSIVE BigScale(_, _, _)
\* x * k + carry for a digit sequence x and k, carry below 10000
BigScale(x, k, carry) ==
    IF x = <<>> THEN BigOf(carry)
    ELSE LET t == Head(x) * k + carry
         IN  <<t % 10000>> \o BigScale(Tail(x), k, t \div 10000)

RECURSIVE BigAdd(_, _, _)
\* x + y + carry for digit sequences x and y
BigAdd(x, y, carry) ==
    IF x = <<>> /\ y = <<>> THEN BigOf(carry)
    ELSE LET a == IF x = <<>> THEN 0 ELSE Head(x)
             b == IF y = <<>> THEN 0 ELSE Head(y)
             t == a + b + carry
         IN  <<t % 10000>> \o BigAdd(IF x = <<>> THEN x ELSE Tail(x),
                                     IF y = <<>> THEN y ELSE Tail(y),
                                     t \div 10000)

RECURSIVE BigMul(_, _)
\* x * y for digit sequences x and y
BigMul(x, y) ==
    IF y = <<>> THEN <<>>
    ELSE BigAdd(BigScale(x, Head(y), 0), <<0>> \o BigMul(x, Tail(y)), 0)

RECURSIVE BigCompare(_, _, _)
\* -1, 0 or 1 as x is below, equal to or above y, looking at the digits
\* from position i down
BigCompare(x, y, i) ==
    LET a == IF i <= Len(x) THEN x[i] ELSE 0
        b == IF i <= Len(y) THEN y[i] ELSE 0
    IN  IF i = 0 THEN 0
        ELSE IF a < b THEN -1
        ELSE IF a > b THEN 1
        ELSE BigCompare(x, y, i - 1)

\* x <= y for digit sequences x and y
BigLeq(x, y) ==
    BigCompare(x, y, IF Len(x) > Len(y) THEN Len(x) ELSE Len(y)) <= 0

\* q = floor(p * r * d / (10000 * 31536000)), in exact arithmetic:
\* q * 10000 * 31536000 <= p * r * d < (q + 1) * 10000 * 31536000
IsExactFloor(q, p, r, d) ==
    LET product == BigMul(BigMul(BigOf(p), BigOf(r)), BigOf(d))
        divisor == BigMul(BigOf(10000), BigOf(31536000))
    IN  /\ BigLeq(BigMul(BigOf(q), divisor), product)
        /\ ~BigLeq(BigMul(BigOf(q + 1), divisor), product)

\* the floor of the exact quotient, found by search
ExactInterest(p, r, d) ==
    CHOOSE q \in 0..MaxInterest : IsExactFloor(q, p, r, d)

\* the floor of p * r * d / (10000 * 31536000) in exact arithmetic, for a
\* rate of at most 10000 basis points over at most a year, where it does
\* not exceed p
InterestUpToPrincipal(p, r, d) ==
    CHOOSE q \in 0..p : IsExactFloor(q, p, r, d)

\* the sum, over the addresses in vault v's depositors array, of the
\* interest of each one's principal
PotOf(v) ==
    SumSet([a \in Addr |-> InterestUpToPrincipal(vaults[v].deposits[a],
                                                 vaults[v].interestRate,
                                                 vaults[v].duration)],
           Members(vaults[v].depositors))

\* C7: after a successful withdraw at or after createdAt + duration
\* hasWinner is true, and when no winner was selected before the call the
\* payout is computed after the settlement: the call hands its transfer the
\* principal, plus the total interest when the caller is the winner.  The
\* withdraw is the transaction's outermost call, with whatever is called
\* from inside its transfer, or a call made inside another transaction.
C7_MaturedWithdrawSettles ==
    /\ [](\A v \in VaultIds, a \in Addr, seed \in Seeds :
          \A r \in withdrawResults(World, FALSE, a, v, seed, "ok", MaxDepth) :
              r.res = "ok" /\ AtOrAfterMaturity(v) =>
                  /\ r.w.vaults[v].winnerSelected
                  /\ ~vaults[v].winnerSelected =>
                         r.amount = vaults[v].deposits[a] +
                             (IF r.w.vaults[v].winner = a
                              THEN PotOf(v) ELSE 0))
    /\ [][\A v \in VaultIds, a \in Addr :
              WithdrewStep(v, a) /\ AtOrAfterMaturity(v)' => hasWinner(v)']_vars

\* C7 witness: an address has withdrawn from a vault that is past its
\* maturity and has a winner, and another depositor is still in the vault
C7_Witness ==
    \E p \in withdrew :
        /\ vaults[p[1]].winnerSelected
        /\ vaults[p[1]].active
        /\ now > vaults[p[1]].creationTime + vaults[p[1]].duration
        /\ Len(vaults[p[1]].depositors) > 0

\* the results of withdraw(v) called by a, over every seed and every
\* behaviour of the transfer
WithdrawResults(v, a) ==
    {WithdrawResult(vaults[v], claimableAmounts[v], balance[vaults[v].token],
                    a, seed, ext) : seed \in Seeds, ext \in Outcomes}

\* C8 as stated: after a successful withdraw, and with no successful deposit
\* since, a withdraw by the same address on the same vault fails with
\* "No deposit" and pays nothing.
C8_SecondWithdrawNoDeposit ==
    \A p \in withdrew :
        \A r \in WithdrawResults(p[1], p[2]) :
            r.res = "No deposit" /\ r.amount = 0

\* C8 amended: such a withdraw fails and pays nothing: with "No deposit"
\* while the vault is active, with "Vault inactive" once it was deleted.
C8_SecondWithdrawFails ==
    \A p \in withdrew :
        \A r \in WithdrawResults(p[1], p[2]) :
            /\ r.res = IF vaults[p[1]].active THEN "No deposit"
                       ELSE "Vault inactive"
            /\ r.amount = 0
            /\ r.vault = vaults[p[1]]

\* C8 witness: an address has withdrawn from a vault that is still active
C8_Witness ==
    \E p \in withdrew : vaults[p[1]].active

\* vault v was created and deleted
Deleted(v) == Created(v) /\ ~vaults[v].active

\* C9: a successful deleteVault pays every address with a principal exactly
\* that principal, plus its own interest at or after maturity, and sets
\* active to false; from then on every deposit and withdraw on the vault
\* fails as inactive and active never becomes true again.
C9_DeleteVaultPaysAll ==
    [][\A v \in VaultIds :
           /\ \A rejecting \in SUBSET Addr, mode \in {"false", "revert"} :
                  LET st == DeleteResult(World, vaults[v],
                                         balance[vaults[v].token],
                                         adminWallet, rejecting, mode)
                  IN  st.res = "ok" =>
                          \A a \in Addr :
                              st.paid[a] =
                                  IF vaults[v].deposits[a] = 0 THEN 0
                                  ELSE vaults[v].deposits[a] +
                                       (IF AtOrAfterMaturity(v)
                                        THEN Interest(vaults[v].deposits[a],
                                                 vaults[v].interestRate,
                                                 vaults[v].duration)
                                        ELSE 0)
           /\ Deleted(v) =>
                  /\ Deleted(v)'
                  /\ \A a \in Addr, call \in DepositCalls, ext \in Outcomes :
                         DepositResult(vaults[v], a, call[1], call[2], ext).res
                             = "Vault is not active"
                  /\ \A a \in Addr : \A r \in WithdrawResults(v, a) :
                         r.res = "Vault inactive"]_vars

\* C10: when the asset transfer of a deposit or of a withdraw fails, by
\* reverting or by returning false, the call aborts and leaves the vault and
\* the claimable amounts as before; a deposit credits the caller only with
\* funds that reached the contract.
C10_FailedTransferAborts ==
    [][\A v \in VaultIds, a \in Addr :
           /\ \A call \in DepositCalls, ext \in {"false", "revert"} :
                  LET r == DepositResult(vaults[v], a, call[1], call[2], ext)
                  IN  /\ vaults[v].token # ZeroAddress
                      /\ DepositChecks(vaults[v], call[1], call[2]) = "ok"
                      => r.res # "ok" /\ r.vault = vaults[v]
           /\ \A seed \in Seeds, ext \in {"false", "revert"} :
                  LET r == WithdrawResult(vaults[v], claimableAmounts[v],
                               balance[vaults[v].token], a, seed, ext)
                  IN  /\ r.res # "ok"
                      /\ r.vault = vaults[v]
                      /\ r.claimable = claimableAmounts[v]
           /\ DepositStep(v, a) /\ vaults'[v].active =>
                  vaults'[v].deposits[a] - vaults[v].deposits[a]
                      = 0 - PaidOut(v)]_vars

\* C11: a failed payout transfer of deleteVault is never swallowed: every
\* successful deleteVault has paid out, from the contract's holding of the
\* vault's asset, at least the principals it has set to zero (a deletion
\* whose transfer fails aborts and is no step at all).
C11_DeleteFailureNotSwallowed ==
    [][\A v \in VaultIds :
           DeleteOnlyStep(v) =>
               /\ \A a \in Addr : vaults'[v].deposits[a] = 0
               /\ PaidOut(v) >= SumSet(vaults[v].deposits, Addr)]_vars

\* the functions behind onlyAdmin
PrivilegedFunctions ==
    {"createVault", "deleteVault", "fundContract", "fundContractToken"}

RECURSIVE AdminAfter(_, _, _)
\* the administrator after the calls i.. of the history `calls`, when it is
\* admin before them: the address of the last successful setAdminWallet
AdminAfter(admin, calls, i) ==
    IF i > Len(calls) THEN admin
    ELSE AdminAfter(IF calls[i].f = "setAdminWallet" THEN calls[i].x
                    ELSE admin, calls, i + 1)

\* the vault ids the createVault calls of the history have consumed
CreatedBy(calls) ==
    {calls[i].x : i \in {j \in 1..Len(calls) : calls[j].f = "createVault"}}

\* the result r of a transaction keeps to the roles: every privileged call
\* that succeeded inside it had the administrator of that moment as its
\* caller, and every setAdminWallet the owner of that moment; the
\* administrator it leaves is the address of its last successful
\* setAdminWallet, or the administrator it found; the ids it has consumed
\* are those of its successful createVault calls, each with a positive rate
KeepsToRoles(r) ==
    r.res = "ok" =>
        /\ \A i \in 1..Len(r.w.calls) :
               /\ r.w.calls[i].f \in PrivilegedFunctions =>
                      r.w.calls[i].c = r.w.calls[i].admin
               /\ r.w.calls[i].f = "setAdminWallet" =>
                      /\ r.w.calls[i].c = r.w.calls[i].owner
                      /\ r.w.calls[i].x # ZeroAddress
        /\ r.w.adminWallet = AdminAfter(adminWallet, r.w.calls, 1)
        /\ CreatedBy(r.w.calls) = vaultCount..(r.w.vaultCount - 1)
        /\ \A v \in CreatedBy(r.w.calls) \cap VaultIds :
               r.w.vaults[v].interestRate > 0

\* C12: createVault, deleteVault and the fund calls succeed only for the
\* caller that is the administrator at that moment: for every other caller
\* they fail as unauthorized and change nothing, whatever their inputs;
\* createVault with an interest rate of 0 fails as an invalid parameter,
\* creates no vault and consumes no id; setAdminWallet fails for every
\* caller but the owner; and every transaction, of every function and with
\* whatever is called back into the contract during it, keeps to the roles.
C12_PrivilegedCallsByAdmin ==
    /\ \A c \in Addr \ {adminWallet} :
           /\ \A t \in Assets, d \in Durations, r \in Rates :
                  createVaultCall(World, c, t, d, r)
                      = Reverted(World, "Caller is not the admin")
           /\ \A v \in VaultIds :
                  deleteVaultResults(World, FALSE, c, v, MaxDepth)
                      = {Reverted(World, "Caller is not the admin")}
           /\ \A m \in FundAmounts :
                  fundContractCall(World, c, m)
                      = Reverted(World, "Caller is not the admin")
           /\ \A t \in Assets, a \in FundAmounts, ext \in Outcomes :
                  fundContractTokenResults(World, FALSE, c, t, a, ext,
                                           MaxDepth)
                      = {Reverted(World, "Caller is not the admin")}
    /\ \A t \in Assets, d \in Durations :
           createVaultCall(World, adminWallet, t, d, 0)
               = Reverted(World, "Interest rate must be greater than 0")
    /\ \A c \in Addr \ {owner}, a \in NewAdmins :
           setAdminWalletCall(World, c, a)
               = Reverted(World, "OwnableUnauthorizedAccount")
    /\ \A c \in Callers :
           /\ \A a \in NewAdmins : KeepsToRoles(setAdminWalletCall(World, c, a))
           /\ \A a \in NewOwners :
                  KeepsToRoles(transferOwnershipCall(World, c, a))
           /\ KeepsToRoles(renounceOwnershipCall(World, c))
           /\ \A t \in Assets, d \in Durations, r \in Rates :
                  KeepsToRoles(createVaultCall(World, c, t, d, r))
           /\ \A m \in FundAmounts : KeepsToRoles(fundContractCall(World, c, m))
           /\ \A t \in Assets, a \in FundAmounts, ext \in Outcomes :
              \A r \in fundContractTokenResults(World, FALSE, c, t, a, ext,
                                                MaxDepth) :
                  KeepsToRoles(r)
           /\ \A v \in VaultIds :
                  /\ \A call \in DepositCalls, ext \in Outcomes :
                     \A r \in depositResults(World, FALSE, c, v, call[1],
                                             call[2], ext, MaxDepth) :
                         KeepsToRoles(r)
                  /\ \A seed \in Seeds, ext \in Outcomes :
                     \A r \in withdrawResults(World, FALSE, c, v, seed, ext,
                                              MaxDepth) :
                         KeepsToRoles(r)
                  /\ \A r \in deleteVaultResults(World, FALSE, c, v, MaxDepth) :
                         KeepsToRoles(r)

\* C12 witness: the owner has handed the administrator role to another
\* address, funds were added, and a vault was created and deleted
C12_Witness ==
    /\ adminWallet # owner
    /\ FundedTotal(World) > 0
    /\ \E v \in VaultIds : Deleted(v)

\* C13: deposit fails as inactive when the vault is not active (a vault id
\* never created included), as closed when now >= createdAt + duration, as
\* a zero amount when the contributed amount is zero, and as an unexpected
\* payment when value comes with a token deposit, in each case changing
\* nothing; a successful deposit, whatever is called from inside its
\* transferFrom, appends the caller to depositors only when its principal
\* before the call was zero, adds the contributed amount to that principal
\* and to totalDeposits, and leaves every other depositor's entry as it
\* was.
C13_DepositChecksAndEffects ==
    \A v \in VaultIds, a \in Addr, call \in DepositCalls, ext \in Outcomes :
    \A r \in depositResults(World, FALSE, a, v, call[1], call[2], ext,
                            MaxDepth) :
        LET vault == vaults[v]
            amount == call[1]
            value == call[2]
            native == vault.token = ZeroAddress
            contributed == IF native THEN value ELSE amount
            closed == now >= vault.creationTime + vault.duration
            after == r.w.vaults[v]
        IN  /\ ~vault.active => r.res = "Vault is not active"
            /\ vault.active /\ closed =>
                   r.res = "Vault deposit period has ended"
            /\ vault.active /\ ~closed /\ contributed = 0 =>
                   r.res = "Cannot deposit 0"
            /\ vault.active /\ ~closed /\ contributed > 0 /\ ~native
                   /\ value > 0 =>
                   r.res = "Don't send ETH for token deposits"
            /\ r.res # "ok" => r.w = World
            /\ r.res = "ok" =>
                   /\ vault.active /\ ~closed /\ contributed > 0
                   /\ after.depositors =
                          IF vault.deposits[a] = 0
                          THEN vault.depositors \o <<a>>
                          ELSE vault.depositors
                   /\ after.deposits =
                          [b \in Addr |-> IF b = a
                                          THEN vault.deposits[b] + contributed
                                          ELSE vault.deposits[b]]
                   /\ after.totalDeposits = vault.totalDeposits + contributed

\* C13, for the deposits nothing is called from: the checks in the order of
\* the requires, and the credit of lines 128-133
C13_UninterruptedDeposit ==
    \A v \in VaultIds, a \in Addr, call \in DepositCalls, ext \in Outcomes :
        LET vault == vaults[v]
            amount == call[1]
            value == call[2]
            native == vault.token = ZeroAddress
            contributed == IF native THEN value ELSE amount
            closed == now >= vault.creationTime + vault.duration
            r == DepositResult(vault, a, amount, value, ext)
        IN  /\ ~vault.active => r.res = "Vault is not active"
            /\ vault.active /\ closed =>
                   r.res = "Vault deposit period has ended"
            /\ vault.active /\ ~closed /\ contributed = 0 =>
                   r.res = "Cannot deposit 0"
            /\ vault.active /\ ~closed /\ contributed > 0 /\ ~native
                   /\ value > 0 =>
                   r.res = "Don't send ETH for token deposits"
            /\ r.res # "ok" => r.vault = vault /\ r.moved = 0
            /\ r.res = "ok" =>
                   /\ vault.active /\ ~closed /\ contributed > 0
                   /\ r.vault.depositors =
                          IF vault.deposits[a] = 0
                          THEN vault.depositors \o <<a>>
                          ELSE vault.depositors
                   /\ r.vault.deposits =
                          [b \in Addr |-> IF b = a
                                          THEN vault.deposits[b] + contributed
                                          ELSE vault.deposits[b]]
                   /\ r.vault.totalDeposits = vault.totalDeposits + contributed
                   /\ r.vault = [vault EXCEPT
                                    !.depositors = r.vault.depositors,
                                    !.deposits = r.vault.deposits,
                                    !.totalDeposits = r.vault.totalDeposits]

\* C14: the interest of principal p at r basis points over d seconds is
\* floor(p * r * d / (10000 * 31536000)): settlement computes it for each
\* depositor and sums, deleteVault and getDepositorBalance compute it for
\* each depositor, all three with the same value; for p = 1000, r = 500
\* and d = 365 days it is 50.
C14_InterestIsExactFloor ==
    LET c == interestCalc.in
        exact == [a \in {1, 2} |->
                     IF a = 1 THEN ExactInterest(c.p, c.r, c.d)
                     ELSE IF c.q > 0 THEN ExactInterest(c.q, c.r, c.d) ELSE 0]
        listed == IF c.q > 0 THEN {1, 2} ELSE {1}
    IN  /\ \E q \in 0..MaxInterest : IsExactFloor(q, c.p, c.r, c.d)
        /\ interestCalc.settlement # <<>> =>
               interestCalc.settlement[1] = exact[1] + exact[2]
        /\ interestCalc.deletion # <<>> =>
               interestCalc.deletion[1] = [a \in listed |-> exact[a]]
        /\ interestCalc.view # <<>> =>
               interestCalc.view[1] = [a \in listed |-> exact[a]]
        /\ c.p = 1000 /\ c.r = 500 /\ c.d = 31536000
               /\ interestCalc.view # <<>> =>
               interestCalc.view[1][1] = 50

\* C14 witness: all three computations were made for p = 1000, r = 500 and
\* d = 365 days, next to a second depositor
C14_Witness ==
    /\ interestCalc.in = [p |-> 1000, q |-> 1000, r |-> 500, d |-> 31536000]
    /\ interestCalc.settlement = <<100>>
    /\ interestCalc.deletion # <<>>
    /\ interestCalc.view # <<>>

\* C15: getWinnerInfo fails while no winner is selected (as not yet settled
\* when the vault is active), and once a winner is selected it returns the
\* winner and the total interest won at settlement, the totalInterest of
\* the WinnerSelected event, whoever has withdrawn since.
C15_WinnerInfoIsSettlementInterest ==
    \A v \in VaultIds :
        LET r == getWinnerInfo(vaults[v]) IN
        /\ ~vaults[v].winnerSelected => r.res # "ok"
        /\ ~vaults[v].winnerSelected /\ vaults[v].active =>
               r.res = "No winner selected yet"
        /\ vaults[v].winnerSelected /\ vaults[v].active =>
               /\ r.res = "ok"
               /\ r.winner = vaults[v].winner
               /\ emittedInterest[v] = <<r.totalInterest>>

\* C16: while withdraw or deleteVault is inside its external transfer, no
\* deposit, withdraw or deleteVault on the same vault succeeds when the
\* recipient of the transfer calls back into the contract, also when that
\* recipient is the administrator.
C16_NoReentrantSuccess ==
    \A v \in VaultIds, a \in Addr :
        /\ \A seed \in Seeds :
               LET held == balance[vaults[v].token]
                   r == WithdrawResult(vaults[v], claimableAmounts[v], held,
                                       a, seed, "ok")
               IN  r.res = "ok" =>
                   /\ \A call \in DepositCalls, ext \in Outcomes :
                          ReenteredDeposit(TRUE, r.vault, a, call[1], call[2],
                                           ext).res # "ok"
                   /\ \A seed2 \in Seeds, ext \in Outcomes :
                          ReenteredWithdraw(TRUE, r.vault, r.claimable,
                                            held - r.amount, a, seed2,
                                            ext).res # "ok"
                   /\ \A rejecting \in SUBSET Members(r.vault.depositors),
                         mode \in {"false", "revert"} :
                          ReenteredDeleteVault(TRUE, World, r.vault,
                                               held - r.amount, a, rejecting,
                                               mode).res # "ok"
        /\ \A k \in 1..Len(vaults[v].depositors) :
               LET mid == DeleteInTransfer(vaults[v], k)
                   held == balance[vaults[v].token]
               IN  vaults[v].active /\ a = vaults[v].depositors[k] =>
                   /\ \A call \in DepositCalls, ext \in Outcomes :
                          ReenteredDeposit(FALSE, mid, a, call[1], call[2],
                                           ext).res # "ok"
                   /\ \A seed2 \in Seeds, ext \in Outcomes, h \in 0..held :
                          ReenteredWithdraw(FALSE, mid, claimableAmounts[v],
                                            h, a, seed2, ext).res # "ok"
                   /\ \A rejecting \in SUBSET Members(mid.depositors),
                         mode \in {"false", "revert"}, h \in 0..held :
                          ReenteredDeleteVault(FALSE, World, mid, h, a,
                                               rejecting, mode).res # "ok"

\* C17: the settlement's total interest is the sum of the interest of every
\* depositor then in the vault; settlement sets the winner's claimable
\* amount to its principal plus that total and every other depositor's to
\* its principal; every successful withdraw from a settled vault hands its
\* transfer the winner's principal plus that total, or a non-winner's
\* principal, and leaves the other claimable amounts as they were.
C17_SettlementClaimables ==
    /\ [][\A v \in VaultIds :
              ~vaults[v].winnerSelected /\ vaults'[v].winnerSelected =>
                  /\ emittedInterest'[v] = <<PotOf(v)>>
                  /\ \A b \in Addr :
                         claimableAmounts'[v][b] =
                             IF b \in Members(vaults'[v].depositors)
                             THEN vaults[v].deposits[b] +
                                  (IF b = vaults'[v].winner
                                   THEN PotOf(v) ELSE 0)
                             ELSE 0]_vars
    /\ [](\A v \in VaultIds, a \in Addr, seed \in Seeds :
          \A r \in withdrawResults(World, FALSE, a, v, seed, "ok", MaxDepth) :
              r.res = "ok" /\ r.w.vaults[v].winnerSelected =>
                  /\ r.amount =
                         vaults[v].deposits[a] +
                         (IF a = r.w.vaults[v].winner
                          THEN r.w.emittedInterest[v][1] ELSE 0)
                  /\ \A b \in Addr \ {a} :
                         vaults[v].winnerSelected =>
                             r.w.claimableAmounts[v][b]
                                 = claimableAmounts[v][b])

\* C17 witness: after a settlement with a non-zero total interest the
\* winner has withdrawn while another depositor is still in the vault
C17_Witness ==
    \E v \in VaultIds :
        /\ vaults[v].active
        /\ emittedInterest[v] # <<>>
        /\ emittedInterest[v] # <<0>>
        /\ <<v, vaults[v].winner>> \in withdrew
        /\ Len(vaults[v].depositors) > 0

\* C18: a claimable amount is zero while no winner is selected, and is zero
\* for every address that holds no principal: one that never deposited, and
\* one that was paid out, by its own withdraw or by deleteVault (so an
\* amount that was reset stays zero, deposits being closed at settlement).
C18_ClaimableZeroUnlessOwed ==
    \A v \in VaultIds, a \in Addr :
        /\ ~vaults[v].winnerSelected => claimableAmounts[v][a] = 0
        /\ vaults[v].deposits[a] = 0 => claimableAmounts[v][a] = 0

\* C19: every successful withdraw removes exactly the caller from the
\* depositors array: afterwards the array holds the addresses it held before
\* without the caller, each once, and is one shorter.
C19_RemovalDropsOnlyCaller ==
    [][\A v \in VaultIds, a \in Addr :
           WithdrawStep(v, a) =>
               LET before == vaults[v].depositors
                   after == vaults'[v].depositors
               IN  /\ Members(after) = Members(before) \ {a}
                   /\ Len(after) = Len(before) - 1
                   /\ Cardinality(Members(after)) = Len(after)
                   /\ \A b \in Members(before) \ {a} :
                          \E i \in 1..Len(after) : after[i] = b]_vars

\* C19 witness: the winner of a settlement among three depositors has
\* withdrawn, and the other two are still in the array
C19_Witness ==
    \E v \in VaultIds :
        /\ vaults[v].winnerSelected
        /\ <<v, vaults[v].winner>> \in withdrew
        /\ Len(vaults[v].depositors) = 2

\* C20: deposits and settlement do not overlap: a winner is selected only
\* at or after createdAt + duration, and from then on no deposit succeeds;
\* so in an active vault with a winner every address in depositors has a
\* claimable amount equal to its principal, plus the settlement's total
\* interest for the winner, and a withdraw at or after maturity never falls
\* back to the raw principal.
C20_DepositsEndBeforeSettlement ==
    \A v \in VaultIds :
        /\ vaults[v].winnerSelected => AtOrAfterMaturity(v)
        /\ AtOrAfterMaturity(v) =>
               \A a \in Addr, call \in DepositCalls, ext \in Outcomes :
                   DepositResult(vaults[v], a, call[1], call[2], ext).res
                       # "ok"
        /\ vaults[v].active /\ vaults[v].winnerSelected =>
               \A a \in Members(vaults[v].depositors) :
                   claimableAmounts[v][a] =
                       vaults[v].deposits[a] +
                       (IF a = vaults[v].winner
                        THEN emittedInterest[v][1] ELSE 0)
        /\ vaults[v].active /\ AtOrAfterMaturity(v) =>
               \A a \in Addr, seed \in Seeds :
                   LET settled ==
                           IF vaults[v].winnerSelected
                           THEN claimableAmounts[v]
                           ELSE _selectWinner(vaults[v], claimableAmounts[v],
                                              seed).claimable
                   IN  vaults[v].deposits[a] > 0 => settled[a] # 0

\* C20 witness: an active vault after a settlement with a non-zero total
\* interest, with the winner still in it after another depositor's withdraw
C20_Witness ==
    \E v \in VaultIds :
        /\ vaults[v].active
        /\ vaults[v].winnerSelected
        /\ emittedInterest[v] # <<0>>
        /\ vaults[v].winner \in Members(vaults[v].depositors)
        /\ \E p \in withdrew : p[1] = v
====
